---- MODULE Spec2Model ----
(***************************************************************************)
(* Model of scripts/TF-IDF.py: the period-segmented TF-IDF pipeline.       *)
(*                                                                         *)
(* Text.  A string is a sequence of characters.  A Hangul syllable is one  *)
(* character, written here by its romanisation:                            *)
(*   "nah" 낳  "da" 다  "reul" 를  "mo" 모  "mi" 미  "sa" 사  "a" 아        *)
(*   "i" 이  "jip" 집  "ha" 하  "hon" 혼  "hoe" 회                          *)
(* so <<"ha","da">> is the two-character string 하다.  POS tags are        *)
(* sequences of ASCII characters.  The en dash of the period labels is     *)
(* written "-".                                                            *)
(*                                                                         *)
(* Numbers.  TF-IDF weights are doubles in the program; the model keeps    *)
(* them in fixed point, Scale units per 1.0, natural logarithms from a     *)
(* table and square roots rounded down.  Where the program's result        *)
(* depends on whether two doubles are equal, the model treats values that  *)
(* are equal at its resolution as undecided unless it knows them to be     *)
(* computed alike (TotalOrders, ZScore).                                   *)
(***************************************************************************)
EXTENDS Integers, Sequences, FiniteSets, TLC

VARIABLES
    df,              \* the loaded sheet: sequence of [Year, Content] rows
    TOP_N,           \* configuration: number of top words
    pc,              \* position of the script
    df_period,       \* the column df["Period"]
    i,               \* row index of the tokenisation loop
    tokens,          \* local `tokens` of the last tokenised row
    period_docs,     \* ordered dict: period -> list of joined documents
    all_docs,        \* pooled documents
    vectorizer,      \* the TfidfVectorizer object
    fit_calls,       \* number of fits performed on the vectorizer
    top_words,       \* selected global vocabulary
    j,               \* position of the sum / mean loop over period_docs
    period_sum,      \* ordered dict: period -> sum row
    period_mean,     \* ordered dict: period -> mean row
    sum_tfidf_df, z_score_sum_df, mean_tfidf_df, z_score_mean_df,
    written          \* set of output files written so far

vars == <<df, TOP_N, pc, df_period, i, tokens, period_docs, all_docs,
          vectorizer, fit_calls, top_words, j, period_sum, period_mean,
          sum_tfidf_df, z_score_sum_df, mean_tfidf_df, z_score_mean_df,
          written>>

(***************************************************************************)
(* Bounds of the model.                                                    *)
(***************************************************************************)
MaxDocs == 2
MaxTopN == 3
MinYear == 1965
MaxYear == 2027

Scale == 10 * 10 * 10

\* Scale * ln(k) for k = 1..8, rounded to nearest
LnTable == <<0, 693, 1099, 1386, 1609, 1792, 1946, 2079>>

(***************************************************************************)
(* Generic helpers.                                                        *)
(***************************************************************************)
Range(s) == {s[k] : k \in 1..Len(s)}

Min(a, b) == IF a <= b THEN a ELSE b

Max(a, b) == IF a >= b THEN a ELSE b

RECURSIVE SumSeq(_)
SumSeq(s) == IF s = <<>> THEN 0 ELSE Head(s) + SumSeq(Tail(s))

RECURSIVE IsqrtIter(_, _, _)
IsqrtIter(n, lo, hi) ==
    IF lo >= hi THEN lo
    ELSE LET mid == (lo + hi + 1) \div 2
         IN  IF mid * mid <= n THEN IsqrtIter(n, mid, hi)
             ELSE IsqrtIter(n, lo, mid - 1)

\* floor of the square root
Isqrt(n) == IsqrtIter(n, 0, 46340)

\* str.startswith
StartsWith(s, prefix) ==
    Len(s) >= Len(prefix) /\ SubSeq(s, 1, Len(prefix)) = prefix

\* Unicode code point order of the characters used
CharOrder == <<" ", "nah", "da", "reul", "mo", "mi", "sa", "a", "i", "jip",
               "ha", "hon", "hoe">>

CharRank(c) == CHOOSE k \in 1..Len(CharOrder) : CharOrder[k] = c

RECURSIVE StrLess(_, _)
StrLess(a, b) ==
    IF a = <<>> THEN b # <<>>
    ELSE IF b = <<>> THEN FALSE
    ELSE IF Head(a) = Head(b) THEN StrLess(Tail(a), Tail(b))
    ELSE CharRank(Head(a)) < CharRank(Head(b))

RECURSIVE SortedStrings(_)
SortedStrings(S) ==
    IF S = {} THEN <<>>
    ELSE LET m == CHOOSE x \in S : \A y \in S \ {x} : StrLess(x, y)
         IN  <<m>> \o SortedStrings(S \ {m})

\* ordered dict (insertion order): a sequence of [key, val] entries
DictKeys(d) == [k \in 1..Len(d) |-> d[k].key]

DictHas(d, key) == \E k \in 1..Len(d) : d[k].key = key

DictGet(d, key) == d[CHOOSE k \in 1..Len(d) : d[k].key = key].val

DictSet(d, key, val) ==
    IF DictHas(d, key)
    THEN [k \in 1..Len(d) |-> IF d[k].key = key THEN [key |-> key, val |-> val]
                              ELSE d[k]]
    ELSE Append(d, [key |-> key, val |-> val])

(***************************************************************************)
(* Configuration (lines 22-24).                                            *)
(***************************************************************************)
EXCLUDE_WORDS == {<<"mi", "hon", "mo">>, <<"ha", "da">>}

(***************************************************************************)
(* Period classification (lines 34-44).                                    *)
(***************************************************************************)
P1 == "1. 1970-1979"
P2 == "2. 1980-1987"
P3 == "3. 1988-1995"
P4 == "4. 1996-2007"
P5 == "5. 2008-2014"
P6 == "6. 2015-2023"
Unknown == "Unknown"

get_period_exclusive_upper(year) ==
    IF 1970 <= year /\ year < 1979 THEN P1
    ELSE IF 1980 <= year /\ year < 1987 THEN P2
    ELSE IF 1988 <= year /\ year < 1995 THEN P3
    ELSE IF 1996 <= year /\ year < 2007 THEN P4
    ELSE IF 2008 <= year /\ year < 2014 THEN P5
    ELSE IF 2015 <= year /\ year < 2023 THEN P6
    ELSE Unknown

get_period(year) ==
    IF 1970 <= year /\ year <= 1979 THEN P1
    ELSE IF 1980 <= year /\ year <= 1987 THEN P2
    ELSE IF 1988 <= year /\ year <= 1995 THEN P3
    ELSE IF 1996 <= year /\ year <= 2007 THEN P4
    ELSE IF 2008 <= year /\ year <= 2014 THEN P5
    ELSE IF 2015 <= year /\ year <= 2023 THEN P6
    ELSE Unknown

(***************************************************************************)
(* Morphological analysis (lines 48-61).  The analyser is external: its    *)
(* answer for each possible cell content is fixed by the table below.      *)
(***************************************************************************)
NNG == <<"N", "N", "G">>
VV == <<"V", "V">>

Tok(form, tag) == [form |-> form, tag |-> tag]

Contents == {"empty", "birth", "society", "child", "excluded"}

\* cell contents for the order of equal totals: "wordlist" has eighteen
\* different common nouns, each once
TieContents == {"empty", "birth", "wordlist"}

WordlistNouns ==
    << <<"sa", "i">>, <<"i", "sa">>, <<"hoe", "sa">>, <<"sa", "mo">>,
       <<"i", "mo">>, <<"mi", "mo">>, <<"mo", "i">>, <<"mi", "a">>,
       <<"ha", "sa">>, <<"i", "ha">>, <<"da", "sa">>, <<"mi", "sa">>,
       <<"mo", "sa">>, <<"jip", "sa">>, <<"hon", "sa">>, <<"i", "hon">>,
       <<"mi", "hon">>, <<"a", "sa">> >>

kiwi_tokenize(text) ==
    CASE text = "empty" -> <<>>
      [] text = "birth" ->
            <<Tok(<<"mi", "hon", "mo">>, NNG), Tok(<<"a", "i">>, NNG),
              Tok(<<"reul">>, <<"J", "K", "O">>), Tok(<<"nah">>, VV),
              Tok(<<"ha">>, VV)>>
      [] text = "society" ->
            <<Tok(<<"sa", "hoe">>, NNG), Tok(<<"ha", "da">>, NNG),
              Tok(<<"jip">>, NNG), Tok(<<"mi">>, <<"N", "N", "P">>),
              Tok(<<"nah">>, <<"V", "V", "-", "R">>)>>
      [] text = "child" ->
            <<Tok(<<"a", "i">>, NNG), Tok(<<"sa", "hoe">>, NNG),
              Tok(<<"a", "i">>, NNG), Tok(<<"ha">>, <<"V", "A">>)>>
      [] text = "excluded" ->
            <<Tok(<<"mi", "hon", "mo">>, NNG), Tok(<<"ha">>, VV)>>
      [] text = "wordlist" ->
            [k \in 1..Len(WordlistNouns) |-> Tok(WordlistNouns[k], NNG)]

\* the emitted form of a token: dictionary form for verbs
Normalized(token) ==
    IF StartsWith(token.tag, VV) THEN token.form \o <<"da">> ELSE token.form

Retained(token) ==
    /\ StartsWith(token.tag, NNG) \/ StartsWith(token.tag, VV)
    /\ Normalized(token) \notin EXCLUDE_WORDS

RetainedBySurfaceForm(token) ==
    /\ StartsWith(token.tag, NNG) \/ StartsWith(token.tag, VV)
    /\ token.form \notin EXCLUDE_WORDS

tokenize_text_surface_exclusion(text) ==
    LET kept == SelectSeq(kiwi_tokenize(text), RetainedBySurfaceForm)
    IN  [k \in 1..Len(kept) |-> Normalized(kept[k])]

tokenize_text(text) ==
    LET kept == SelectSeq(kiwi_tokenize(text), Retained)
    IN  [k \in 1..Len(kept) |-> Normalized(kept[k])]

\* " ".join(tokens)
RECURSIVE JoinSpace(_)
JoinSpace(ts) ==
    IF ts = <<>> THEN <<>>
    ELSE IF Len(ts) = 1 THEN ts[1]
    ELSE ts[1] \o <<" ">> \o JoinSpace(Tail(ts))

(***************************************************************************)
(* TfidfVectorizer with its defaults (lines 77-78, 88, 120):               *)
(* token_pattern (?u)\b\w\w+\b, smooth_idf, norm = l2.  Lower-casing       *)
(* leaves Hangul unchanged.                                                *)
(***************************************************************************)
RECURSIVE SplitWords(_, _)
\* maximal runs of word characters of `doc`, `cur` being the run in progress
SplitWords(doc, cur) ==
    IF doc = <<>> THEN (IF cur = <<>> THEN <<>> ELSE <<cur>>)
    ELSE IF Head(doc) = " "
         THEN (IF cur = <<>> THEN <<>> ELSE <<cur>>) \o SplitWords(Tail(doc), <<>>)
         ELSE SplitWords(Tail(doc), Append(cur, Head(doc)))

AtLeastTwoChars(w) == Len(w) >= 2

\* build_analyzer(): the terms the vectorizer sees in one document
Analyze(doc) == SelectSeq(SplitWords(doc, <<>>), AtLeastTwoChars)

Unfitted == [fitted |-> FALSE, vocabulary |-> <<>>, idf |-> <<>>]

\* the vocabulary a fit on `docs` would learn; empty means ValueError
FitVocabulary(docs) ==
    SortedStrings(UNION {Range(Analyze(docs[k])) : k \in 1..Len(docs)})

\* vectorizer.fit: vocabulary in sorted order, idf = ln((1+n)/(1+df)) + 1
Fit(docs) ==
    LET vocab == FitVocabulary(docs)
        n     == Len(docs)
        dfreq(t) == Cardinality({k \in 1..n : t \in Range(Analyze(docs[k]))})
    IN  [fitted     |-> TRUE,
         vocabulary |-> vocab,
         idf        |-> [c \in 1..Len(vocab) |->
                            LnTable[1 + n] - LnTable[1 + dfreq(vocab[c])] + Scale]]

\* term counts of one document, one per feature
CountRow(v, doc) ==
    LET terms == Analyze(doc)
    IN  [c \in 1..Len(v.vocabulary) |->
            Cardinality({k \in 1..Len(terms) : terms[k] = v.vocabulary[c]})]

\* tf * idf of one document, before normalisation
RawRow(v, doc) ==
    LET tf == CountRow(v, doc)
    IN  [c \in 1..Len(v.vocabulary) |-> tf[c] * v.idf[c]]

\* one row of vectorizer.transform: tf * idf, L2-normalised
TransformDoc(v, doc) ==
    LET raw    == RawRow(v, doc)
        norm   == Isqrt(SumSeq([c \in 1..Len(raw) |-> raw[c] * raw[c]]))
    IN  [c \in 1..Len(raw) |-> IF norm = 0 THEN 0 ELSE (raw[c] * Scale) \div norm]

\* vectorizer.transform(docs): one row per document, one column per feature
Transform(v, docs) == [k \in 1..Len(docs) |-> TransformDoc(v, docs[k])]

\* df_tfidf[word].sum(): the column of `word`, 0.0 when it is not a feature
ColumnSum(v, X, word) ==
    IF word \in Range(v.vocabulary)
    THEN LET c == CHOOSE c \in 1..Len(v.vocabulary) : v.vocabulary[c] = word
         IN  SumSeq([k \in 1..Len(X) |-> X[k][c]])
    ELSE 0

(***************************************************************************)
(* Top-N selection (lines 79-80).                                          *)
(*                                                                         *)
(* Series.sort_values(ascending=False) is called with its default          *)
(* kind="quicksort".  pandas (nargsort) reverses the values, takes numpy's *)
(* argsort of them and reverses the result; numpy's argsort is the         *)
(* quicksort of npysort (aquicksort, scalar path): median-of-three         *)
(* partitioning while a range holds more than SMALL_QUICKSORT + 1          *)
(* elements, insertion sort below that.  Its fallback to heapsort after    *)
(* 2 * floor(log2(n)) nested partitions needs far more elements than a     *)
(* vocabulary of the model has and is left out.                            *)
(***************************************************************************)
SMALL_QUICKSORT == 16

Swap(t, a, b) == [t EXCEPT ![a] = t[b], ![b] = t[a]]

RECURSIVE InsertDown(_, _, _, _, _)
\* inner loop of the insertion sort: move index vi down from position b
InsertDown(v, t, pl, b, vi) ==
    IF b > pl /\ v[vi] < v[t[b - 1]]
    THEN InsertDown(v, [t EXCEPT ![b] = t[b - 1]], pl, b - 1, vi)
    ELSE [t EXCEPT ![b] = vi]

RECURSIVE InsertionSort(_, _, _, _, _)
\* insertion sort of t[pl..pr], position a being the next to insert
InsertionSort(v, t, pl, pr, a) ==
    IF a > pr THEN t
    ELSE InsertionSort(v, InsertDown(v, t, pl, a, t[a]), pl, pr, a + 1)

RECURSIVE ScanUp(_, _, _, _)
\* do { ++pi } while (v[*pi] < vp), pi being already incremented once
ScanUp(v, t, vp, pi) ==
    IF v[t[pi]] < vp THEN ScanUp(v, t, vp, pi + 1) ELSE pi

RECURSIVE ScanDown(_, _, _, _)
\* do { --pj } while (vp < v[*pj]), pj being already decremented once
ScanDown(v, t, vp, pj) ==
    IF vp < v[t[pj]] THEN ScanDown(v, t, vp, pj - 1) ELSE pj

RECURSIVE Partition(_, _, _, _, _)
\* the partitioning loop around the pivot value vp
Partition(v, t, vp, pi, pj) ==
    LET ni == ScanUp(v, t, vp, pi + 1)
        nj == ScanDown(v, t, vp, pj - 1)
    IN  IF ni >= nj THEN [t |-> t, pi |-> ni]
        ELSE Partition(v, Swap(t, ni, nj), vp, ni, nj)

RECURSIVE aquicksort(_, _, _, _)
\* the index array t with t[pl..pr] put in ascending order of v
aquicksort(v, t, pl, pr) ==
    IF pr - pl > SMALL_QUICKSORT
    THEN LET pm == pl + ((pr - pl) \div 2)
             t1 == IF v[t[pm]] < v[t[pl]] THEN Swap(t, pm, pl) ELSE t
             t2 == IF v[t1[pr]] < v[t1[pm]] THEN Swap(t1, pr, pm) ELSE t1
             t3 == IF v[t2[pm]] < v[t2[pl]] THEN Swap(t2, pm, pl) ELSE t2
             vp == v[t3[pm]]
             t4 == Swap(t3, pm, pr - 1)
             p  == Partition(v, t4, vp, pl, pr - 1)
             t5 == Swap(p.t, p.pi, pr - 1)
         IN  aquicksort(v, aquicksort(v, t5, pl, p.pi - 1), p.pi + 1, pr)
    ELSE InsertionSort(v, t, pl, pr, pl + 1)

\* the positions of `values` in the order sort_values(ascending=False)
\* gives them
sort_values_descending(values) ==
    LET n     == Len(values)
        rev   == [k \in 1..n |-> values[n + 1 - k]]
        order == aquicksort(rev, [k \in 1..n |-> k], 1, n)
    IN  [k \in 1..n |-> n + 1 - order[n + 1 - k]]

head_off_by_one(s, n) ==
    IF n >= 0 THEN SubSeq(s, 1, Max(Min(n, Len(s)) - 1, 0))
    ELSE SubSeq(s, 1, Max(Len(s) + n, 0))

\* Series.head(n): first n entries; for negative n all but the last |n|
head(s, n) ==
    IF n >= 0 THEN SubSeq(s, 1, Min(n, Len(s)))
    ELSE SubSeq(s, 1, Max(Len(s) + n, 0))

\* df_all.sum(): total weight of every feature over the pooled documents
CorpusTotals(v, docs) ==
    LET X == Transform(v, docs)
    IN  [c \in 1..Len(v.vocabulary) |-> ColumnSum(v, X, v.vocabulary[c])]

(***************************************************************************)
(* The order of the program's totals.  The sort compares doubles; the      *)
(* model has them in fixed point only, each weight within one unit of the  *)
(* program's, so two sums of n weights that are equal in the program can   *)
(* differ by up to Resolution(n) in the model.  Totals no further apart    *)
(* than that are one cluster: the model cannot order them by value.        *)
(* Inside a cluster the order of the doubles is known in one case: two     *)
(* columns whose cells are made by the same float operations on the same   *)
(* operands are equal bit for bit.  A cell is made from its term count,    *)
(* its idf and the nonzero tf * idf values of its row (the row's norm); a  *)
(* column total adds its cells in row order, adding 0.0 changes nothing,   *)
(* and the first addition is commutative.  Columns of one cluster with     *)
(* different origins may compare either way or be equal.                   *)
(***************************************************************************)
Resolution(n) == 2 * n

NonZero(x) == x # 0

\* what the double of each cell of one row is computed from: its term
\* count, its idf, and the nonzero tf * idf values of the row
RowOrigins(v, doc) ==
    LET tf      == CountRow(v, doc)
        nonzero == SelectSeq(RawRow(v, doc), NonZero)
    IN  [c \in 1..Len(v.vocabulary) |-> <<tf[c], v.idf[c], nonzero>>]

\* what the double of each column total is computed from: the origins of
\* its nonzero cells, the first two in either order
ColumnOrigins(v, docs) ==
    LET rows == [k \in 1..Len(docs) |-> RowOrigins(v, docs[k])]
    IN  [c \in 1..Len(v.vocabulary) |->
            LET present == {k \in 1..Len(docs) : rows[k][c][1] # 0}
                first   == {k \in present :
                               Cardinality({m \in present : m < k}) < 2}
            IN  <<Cardinality(present),
                  {rows[k][c] : k \in first},
                  {<<k, rows[k][c]>> : k \in present \ first}>>]

\* x is the largest total of its cluster
ClusterTop(totals, x, tol) ==
    ~ \E d \in 1..Len(totals) : x < totals[d] /\ totals[d] <= x + tol

\* number of the cluster of column c, 1 being the cluster of largest totals
ClusterOf(totals, c, tol) ==
    Cardinality({totals[d] : d \in {e \in 1..Len(totals) :
                     totals[e] >= totals[c] /\ ClusterTop(totals, totals[e], tol)}})

\* the orders the doubles of df_all.sum() may be in, each given as a
\* sequence of integers ordered as the doubles are
TotalOrders(v, docs) ==
    LET n       == Len(v.vocabulary)
        tol     == Resolution(Len(docs))
        \* the three sequences, written out in full
        totals  == SubSeq(CorpusTotals(v, docs), 1, n)
        cluster == SubSeq([c \in 1..n |-> ClusterOf(totals, c, tol)], 1, n)
        origin  == SubSeq(ColumnOrigins(v, docs), 1, n)
        mixed   == {origin[c] : c \in {e \in 1..n :
                        \E d \in 1..n : cluster[d] = cluster[e]
                                        /\ origin[d] # origin[e]}}
    IN  {[c \in 1..n |->
            (n + 1 - cluster[c]) * (n + 1)
                + (IF origin[c] \in mixed THEN rank[origin[c]] ELSE 1)] :
         rank \in [mixed -> 1..Cardinality(mixed)]}

\* the values top_words may take
TopWordsChoices(v, docs, n) ==
    {LET perm == sort_values_descending(order)
     IN  head([k \in 1..Len(perm) |-> v.vocabulary[perm[k]]], n) :
        order \in TotalOrders(v, docs)}

(***************************************************************************)
(* Period aggregation and frames (lines 86-100, 118-132).                  *)
(***************************************************************************)
\* df_tfidf[top_words].sum(axis=0)
SumRow(v, docs, words) ==
    LET X == Transform(v, docs)
    IN  [c \in 1..Len(words) |-> ColumnSum(v, X, words[c])]

\* df_tfidf[top_words].mean(axis=0): column sum over the number of rows
MeanRow(v, docs, words) ==
    LET X == Transform(v, docs)
    IN  [c \in 1..Len(words) |-> ColumnSum(v, X, words[c]) \div Len(X)]

NoFrame == [index |-> <<>>, columns |-> <<>>, values |-> <<>>]

\* pd.DataFrame(d).T[words]: one row per key of d, in the dict's key order
FrameOf(d, words) ==
    [index |-> DictKeys(d), columns |-> words,
     values |-> [k \in 1..Len(d) |-> d[k].val]]

(***************************************************************************)
(* Z-score normalisation (lines 103-105, 135-137): one mean and one        *)
(* population standard deviation over all cells.  With N cells, S1 their   *)
(* sum and S2 the sum of their squares, (x - mean) / std equals            *)
(* (N*x - S1) / sqrt(N*S2 - S1*S1).                                        *)
(*                                                                         *)
(* There is no guard on std.  When the cells are equal at the model's      *)
(* resolution (no two further apart than `tol`), the program's result is   *)
(* decided by the last bits of its floats:                                 *)
(*   - one cell, or all cells 0.0: mean = x exactly, std = 0.0 and every   *)
(*     cell is 0.0/0.0 = NaN (nothing is raised);                          *)
(*   - two or more cells: either the floats are equal and the mean is      *)
(*     exact, std = 0.0 and every cell is NaN; or the cells or the mean    *)
(*     differ by rounding errors, std is a positive rounding residue and   *)
(*     every cell is a finite number made of such errors (0.0, 1.0, -1.0,  *)
(*     1.4142, ...).  Fixed point cannot tell which, so both are outcomes, *)
(*     the second with its cells marked "residue".                         *)
(***************************************************************************)
NaN == [kind |-> "nan", val |-> 0]

Num(x) == [kind |-> "num", val |-> x]

\* a finite z-score that consists of float rounding errors only
Residue == [kind |-> "residue", val |-> 0]

FlatCells(frame) ==
    [k \in 1..(Len(frame.index) * Len(frame.columns)) |->
        frame.values[((k - 1) \div Len(frame.columns)) + 1]
                    [((k - 1) % Len(frame.columns)) + 1]]

\* N * N * variance of the cells
ScaledVariance(frame) ==
    LET cells == FlatCells(frame)
        N  == Len(cells)
        S1 == SumSeq(cells)
        S2 == SumSeq([k \in 1..N |-> cells[k] * cells[k]])
    IN  N * S2 - S1 * S1

\* the frame with every cell replaced by `cell`
FilledWith(frame, cell) ==
    [frame EXCEPT !.values =
        [r \in 1..Len(frame.values) |->
            [c \in 1..Len(frame.values[r]) |-> cell]]]

\* no two cells are further apart than tol
Uniform(frame, tol) ==
    LET cells == FlatCells(frame)
    IN  \A a, b \in 1..Len(cells) : cells[a] - cells[b] <= tol

\* the values (frame - mean) / std may take
ZScore(frame, tol) ==
    LET cells == FlatCells(frame)
        N  == Len(cells)
        S1 == SumSeq(cells)
        D  == ScaledVariance(frame)
    IN  IF N <= 1 \/ S1 = 0
        THEN {FilledWith(frame, NaN)}
        ELSE IF Uniform(frame, tol)
        THEN {FilledWith(frame, NaN), FilledWith(frame, Residue)}
        ELSE {[frame EXCEPT !.values =
                 [r \in 1..Len(frame.values) |->
                     [c \in 1..Len(frame.values[r]) |->
                         Num(((N * frame.values[r][c] - S1) * Scale)
                                 \div Isqrt(D))]]]}

\* the largest number of documents of one period
RECURSIVE LargestPeriod(_)
LargestPeriod(d) ==
    IF d = <<>> THEN 0 ELSE Max(Len(Head(d).val), LargestPeriod(Tail(d)))

(***************************************************************************)
(* The script, top to bottom.                                              *)
(***************************************************************************)
SampleYears == {1975, 2020, 2030}

TieYears == {1975, 2020}

Rows(years, contents) == [Year : years, Content : contents]

Sheets(years, contents, maxlen) ==
    UNION {[1..n -> Rows(years, contents)] : n \in 0..maxlen}

AllBucketsEmpty ==
    [k \in 1..6 |-> [key |-> <<P1, P2, P3, P4, P5, P6>>[k], val |-> <<>>]]

\* defaultdict(list): no key until a document is appended to it
NewPeriodDocs == <<>>

Start ==
    /\ pc = "classify"
    /\ df_period = <<>>
    /\ i = 1
    /\ tokens = <<>>
    /\ period_docs = NewPeriodDocs
    /\ all_docs = <<>>
    /\ vectorizer = Unfitted
    /\ fit_calls = 0
    /\ top_words = <<>>
    /\ j = 1
    /\ period_sum = <<>>
    /\ period_mean = <<>>
    /\ sum_tfidf_df = NoFrame
    /\ z_score_sum_df = NoFrame
    /\ mean_tfidf_df = NoFrame
    /\ z_score_mean_df = NoFrame
    /\ written = {}

Init ==
    /\ df \in Sheets(SampleYears, Contents, MaxDocs)
    /\ TOP_N \in (0 - 1)..MaxTopN
    /\ Start

\* one-row sheets over every year of a range, for the period classifier
InitYears ==
    /\ df \in [1..1 -> Rows(MinYear..MaxYear, {"empty", "birth"})]
    /\ TOP_N \in 0..1
    /\ Start

\* sheets with a document of many equally frequent terms, for the order
\* of equal totals
InitTies ==
    /\ df \in Sheets(TieYears, TieContents, MaxDocs)
    /\ TOP_N \in 0..MaxTopN
    /\ Start

\* line 44: df["Period"] = df["Year"].apply(get_period)
Classify ==
    /\ pc = "classify"
    /\ df_period' = [k \in 1..Len(df) |-> get_period(df[k].Year)]
    /\ pc' = "build"
    /\ UNCHANGED <<df, TOP_N, i, tokens, period_docs, all_docs, vectorizer,
                   fit_calls, top_words, j, period_sum, period_mean,
                   sum_tfidf_df, z_score_sum_df, mean_tfidf_df,
                   z_score_mean_df, written>>

BuildRowDroppingEmpty ==
    /\ pc = "build"
    /\ i <= Len(df)
    /\ LET period == df_period[i]
           toks   == tokenize_text(df[i].Content)
           docs   == IF DictHas(period_docs, period)
                     THEN DictGet(period_docs, period) ELSE <<>>
       IN  /\ tokens' = toks
           /\ period_docs' = IF toks = <<>> THEN period_docs
                             ELSE DictSet(period_docs, period,
                                          Append(docs, JoinSpace(toks)))
    /\ i' = i + 1
    /\ UNCHANGED <<df, TOP_N, pc, df_period, all_docs, vectorizer, fit_calls,
                   top_words, j, period_sum, period_mean, sum_tfidf_df,
                   z_score_sum_df, mean_tfidf_df, z_score_mean_df, written>>

\* lines 66-69: one iteration of the tokenisation loop
BuildRow ==
    /\ pc = "build"
    /\ i <= Len(df)
    /\ LET period == df_period[i]
           toks   == tokenize_text(df[i].Content)
           docs   == IF DictHas(period_docs, period)
                     THEN DictGet(period_docs, period) ELSE <<>>
       IN  /\ tokens' = toks
           /\ period_docs' = DictSet(period_docs, period,
                                     Append(docs, JoinSpace(toks)))
    /\ i' = i + 1
    /\ UNCHANGED <<df, TOP_N, pc, df_period, all_docs, vectorizer, fit_calls,
                   top_words, j, period_sum, period_mean, sum_tfidf_df,
                   z_score_sum_df, mean_tfidf_df, z_score_mean_df, written>>

RECURSIVE Pooled(_)
\* lines 73-75: the lists of period_docs.values(), concatenated
Pooled(d) == IF d = <<>> THEN <<>> ELSE Head(d).val \o Pooled(Tail(d))

PoolDocs ==
    /\ pc = "build"
    /\ i > Len(df)
    /\ all_docs' = Pooled(period_docs)
    /\ pc' = "fit"
    /\ UNCHANGED <<df, TOP_N, df_period, i, tokens, period_docs, vectorizer,
                   fit_calls, top_words, j, period_sum, period_mean,
                   sum_tfidf_df, z_score_sum_df, mean_tfidf_df,
                   z_score_mean_df, written>>

\* lines 77-78: fit_transform on the pooled documents
FitAll ==
    /\ pc = "fit"
    /\ FitVocabulary(all_docs) # <<>>
    /\ vectorizer' = Fit(all_docs)
    /\ fit_calls' = fit_calls + 1
    /\ pc' = "select"
    /\ UNCHANGED <<df, TOP_N, df_period, i, tokens, period_docs, all_docs,
                   top_words, j, period_sum, period_mean, sum_tfidf_df,
                   z_score_sum_df, mean_tfidf_df, z_score_mean_df, written>>

\* line 78: ValueError("empty vocabulary") ends the script
FitFails ==
    /\ pc = "fit"
    /\ FitVocabulary(all_docs) = <<>>
    /\ pc' = "fit_error"
    /\ UNCHANGED <<df, TOP_N, df_period, i, tokens, period_docs, all_docs,
                   vectorizer, fit_calls, top_words, j, period_sum,
                   period_mean, sum_tfidf_df, z_score_sum_df, mean_tfidf_df,
                   z_score_mean_df, written>>

\* lines 79-80
SelectTop ==
    /\ pc = "select"
    /\ top_words' \in TopWordsChoices(vectorizer, all_docs, TOP_N)
    /\ pc' = "sum"
    /\ j' = 1
    /\ UNCHANGED <<df, TOP_N, df_period, i, tokens, period_docs, all_docs,
                   vectorizer, fit_calls, period_sum, period_mean,
                   sum_tfidf_df, z_score_sum_df, mean_tfidf_df,
                   z_score_mean_df, written>>

SumPeriodRefitting ==
    /\ pc = "sum"
    /\ j <= Len(period_docs)
    /\ vectorizer' = Fit(period_docs[j].val)
    /\ fit_calls' = fit_calls + 1
    /\ period_sum' = DictSet(period_sum, period_docs[j].key,
                             SumRow(vectorizer', period_docs[j].val, top_words))
    /\ j' = j + 1
    /\ UNCHANGED <<df, TOP_N, pc, df_period, i, tokens, period_docs, all_docs,
                   top_words, period_mean, sum_tfidf_df, z_score_sum_df,
                   mean_tfidf_df, z_score_mean_df, written>>

\* lines 87-98: one iteration of the sum loop
SumPeriod ==
    /\ pc = "sum"
    /\ j <= Len(period_docs)
    /\ period_sum' = DictSet(period_sum, period_docs[j].key,
                             SumRow(vectorizer, period_docs[j].val, top_words))
    /\ j' = j + 1
    /\ UNCHANGED <<df, TOP_N, pc, df_period, i, tokens, period_docs, all_docs,
                   vectorizer, fit_calls, top_words, period_mean,
                   sum_tfidf_df, z_score_sum_df, mean_tfidf_df,
                   z_score_mean_df, written>>

\* lines 100-112: the sum frame, its z-scores, and both files
SumFrame ==
    /\ pc = "sum"
    /\ j > Len(period_docs)
    /\ sum_tfidf_df' = FrameOf(period_sum, top_words)
    /\ z_score_sum_df' \in ZScore(sum_tfidf_df',
                                  Resolution(LargestPeriod(period_docs)))
    /\ written' = written \cup {"period_top20_sumTFIDF.csv",
                                "period_top20_sum_zscore.csv"}
    /\ pc' = "mean"
    /\ j' = 1
    /\ UNCHANGED <<df, TOP_N, df_period, i, tokens, period_docs, all_docs,
                   vectorizer, fit_calls, top_words, period_sum, period_mean,
                   mean_tfidf_df, z_score_mean_df>>

\* lines 119-130: one iteration of the mean loop
MeanPeriod ==
    /\ pc = "mean"
    /\ j <= Len(period_docs)
    /\ period_mean' = DictSet(period_mean, period_docs[j].key,
                              MeanRow(vectorizer, period_docs[j].val, top_words))
    /\ j' = j + 1
    /\ UNCHANGED <<df, TOP_N, pc, df_period, i, tokens, period_docs, all_docs,
                   vectorizer, fit_calls, top_words, period_sum,
                   sum_tfidf_df, z_score_sum_df, mean_tfidf_df,
                   z_score_mean_df, written>>

\* lines 132-144: the mean frame, its z-scores, and both files; a mean is
\* within one unit of the program's, and the division rounds it down
MeanFrame ==
    /\ pc = "mean"
    /\ j > Len(period_docs)
    /\ mean_tfidf_df' = FrameOf(period_mean, top_words)
    /\ z_score_mean_df' \in ZScore(mean_tfidf_df', Resolution(1) + 1)
    /\ written' = written \cup {"period_top20_meanTFIDF.csv",
                                "period_top20_mean_zscore.csv"}
    /\ pc' = "heatmap"
    /\ UNCHANGED <<df, TOP_N, df_period, i, tokens, period_docs, all_docs,
                   vectorizer, fit_calls, top_words, j, period_sum,
                   period_mean, sum_tfidf_df, z_score_sum_df>>

\* lines 156-168: the heatmap of z_score_mean_df, saved as a PNG
SaveHeatmap ==
    /\ pc = "heatmap"
    /\ z_score_mean_df.columns # <<>>
    /\ written' = written \cup {"heatmap_mean_tfidf_zscore.png"}
    /\ pc' = "done"
    /\ UNCHANGED <<df, TOP_N, df_period, i, tokens, period_docs, all_docs,
                   vectorizer, fit_calls, top_words, j, period_sum,
                   period_mean, sum_tfidf_df, z_score_sum_df, mean_tfidf_df,
                   z_score_mean_df>>

\* line 157: sns.heatmap takes the minimum of the cells for its colour
\* range; on a frame with no column that is a reduction of a zero-size
\* array, a ValueError, and the script ends without the PNG
HeatmapFails ==
    /\ pc = "heatmap"
    /\ z_score_mean_df.columns = <<>>
    /\ pc' = "heatmap_error"
    /\ UNCHANGED <<df, TOP_N, df_period, i, tokens, period_docs, all_docs,
                   vectorizer, fit_calls, top_words, j, period_sum,
                   period_mean, sum_tfidf_df, z_score_sum_df, mean_tfidf_df,
                   z_score_mean_df, written>>

Next ==
    \/ Classify
    \/ BuildRow
    \/ PoolDocs
    \/ FitAll
    \/ FitFails
    \/ SelectTop
    \/ SumPeriod
    \/ SumFrame
    \/ MeanPeriod
    \/ MeanFrame
    \/ SaveHeatmap
    \/ HeatmapFails

Spec == Init /\ [][Next]_vars

SpecYears == InitYears /\ [][Next]_vars

SpecTies == InitTies /\ [][Next]_vars

(***************************************************************************)
(* Properties.                                                             *)
(***************************************************************************)
Labels == <<P1, P2, P3, P4, P5, P6>>

AfterFit == pc \in {"select", "sum", "mean", "heatmap", "done", "heatmap_error"}

AfterSelect == pc \in {"sum", "mean", "heatmap", "done", "heatmap_error"}

\* both loops and both frames are complete
AfterMean == pc \in {"heatmap", "done", "heatmap_error"}

\* number of input records whose year falls in period p
RecordCount(p) == Cardinality({k \in 1..Len(df) : get_period(df[k].Year) = p})

RECURSIVE IsSubsequence(_, _)
\* s is obtained from t by deleting entries
IsSubsequence(s, t) ==
    IF s = <<>> THEN TRUE
    ELSE IF t = <<>> THEN FALSE
    ELSE IF Head(s) = Head(t) THEN IsSubsequence(Tail(s), Tail(t))
    ELSE IsSubsequence(s, Tail(t))

HasNaN(frame) ==
    \E r \in 1..Len(frame.values) : \E c \in 1..Len(frame.values[r]) :
        frame.values[r][c].kind = "nan"

\* C1: get_period maps every integer year to exactly one of the six labels
\* or Unknown; each range is inclusive at both ends, the ranges do not
\* overlap, and exactly the years below 1970 or above 2023 give Unknown.
C1_PeriodIsTotalAndInclusive ==
    pc # "classify" =>
        /\ Len(df_period) = Len(df)
        /\ \A k \in 1..Len(df) :
            LET y == df[k].Year
                p == df_period[k]
            IN  /\ p \in Range(Labels) \cup {Unknown}
                /\ (p = P1) <=> (y \in 1970..1979)
                /\ (p = P2) <=> (y \in 1980..1987)
                /\ (p = P3) <=> (y \in 1988..1995)
                /\ (p = P4) <=> (y \in 1996..2007)
                /\ (p = P5) <=> (y \in 2008..2014)
                /\ (p = P6) <=> (y \in 2015..2023)
                /\ (p = Unknown) <=> (y < 1970 \/ y > 2023)

C1_Witness ==
    /\ pc # "classify"
    /\ Len(df) = 1
    /\ df[1].Year = 1979
    /\ df_period[1] = P1

\* C2: tokenize_text emits no term of EXCLUDE_WORDS, the test being made on
\* the normalized form, so no filtered document holds such a term either;
\* the emitted terms are normalized forms of the tokenizer's tokens, in the
\* tokenizer's order.
C2_NoExcludedTerm ==
    /\ i > 1 =>
        /\ \A k \in 1..Len(tokens) : tokens[k] \notin EXCLUDE_WORDS
        /\ LET stream == kiwi_tokenize(df[i - 1].Content)
           IN  IsSubsequence(tokens,
                             [k \in 1..Len(stream) |-> Normalized(stream[k])])
    /\ \A e \in 1..Len(period_docs) : \A d \in 1..Len(period_docs[e].val) :
           Range(SplitWords(period_docs[e].val[d], <<>>)) \cap EXCLUDE_WORDS = {}

C2_Witness ==
    /\ i > 1
    /\ df[i - 1].Content = "birth"
    /\ tokens = << <<"a", "i">>, <<"nah", "da">> >>

\* C3: the model is fitted exactly once, on the pooled documents of all
\* periods, before the Top-N selection and before any transform; after that
\* the fitted model and top_words never change, and every row of the sum
\* and mean loops comes from that model and is indexed by top_words.
C3_FitOnceThenFrozen ==
    /\ [](AfterFit =>
              /\ vectorizer.fitted
              /\ fit_calls = 1
              /\ vectorizer = Fit(Pooled(period_docs)))
    /\ [](~AfterFit =>
              /\ ~vectorizer.fitted
              /\ fit_calls = 0
              /\ top_words = <<>>
              /\ period_sum = <<>>
              /\ period_mean = <<>>)
    /\ [](pc = "select" => period_sum = <<>> /\ period_mean = <<>>)
    /\ [][AfterFit => vectorizer' = vectorizer]_vars
    /\ [][AfterSelect => top_words' = top_words]_vars
    /\ [](AfterMean =>
              /\ sum_tfidf_df.columns = top_words
              /\ mean_tfidf_df.columns = top_words
              /\ \A k \in 1..Len(period_docs) :
                    /\ period_sum[k].val =
                           SumRow(vectorizer, period_docs[k].val, top_words)
                    /\ period_mean[k].val =
                           MeanRow(vectorizer, period_docs[k].val, top_words))

C3_Witness ==
    /\ pc = "done"
    /\ Len(period_docs) = 2
    /\ fit_calls = 1
    /\ Len(top_words) = 2

\* C4: for a positive TOP_N, top_words has min(TOP_N, number of distinct
\* fitted terms) entries, all distinct; with fewer than TOP_N fitted terms
\* it holds all of them.
C4_TopWordsSize ==
    (AfterSelect /\ TOP_N > 0) =>
        LET fitted == UNION {Range(Analyze(all_docs[k])) : k \in 1..Len(all_docs)}
        IN  /\ Len(top_words) = Min(TOP_N, Cardinality(fitted))
            /\ Cardinality(Range(top_words)) = Len(top_words)
            /\ Range(top_words) \subseteq fitted
            /\ Cardinality(fitted) < TOP_N => Range(top_words) = fitted

C4_Witness ==
    /\ pc = "done"
    /\ TOP_N = 3
    /\ Len(vectorizer.vocabulary) = 2
    /\ Len(top_words) = 2

\* C5: every input record stays in its period's list, an empty token
\* sequence as the empty string, and each mean cell is the sum cell divided
\* by the number of records of the period; a period whose documents are all
\* empty has mean 0 for every term.
C5_MeanIsSumOverRecordCount ==
    /\ pc \notin {"classify", "build"} =>
        \A k \in 1..Len(df) :
            /\ DictHas(period_docs, df_period[k])
            /\ Len(DictGet(period_docs, df_period[k])) = RecordCount(df_period[k])
    /\ AfterMean =>
        /\ mean_tfidf_df.index = sum_tfidf_df.index
        /\ \A k \in 1..Len(df) :
              \E r \in 1..Len(mean_tfidf_df.index) :
                 /\ mean_tfidf_df.index[r] = df_period[k]
                 /\ \A c \in 1..Len(top_words) :
                       /\ mean_tfidf_df.values[r][c] =
                              sum_tfidf_df.values[r][c] \div RecordCount(df_period[k])
                       /\ Range(DictGet(period_docs, df_period[k])) = {<<>>}
                              => mean_tfidf_df.values[r][c] = 0

C5_Witness ==
    /\ pc = "done"
    /\ top_words # <<>>
    /\ \E e \in 1..Len(period_docs) : period_docs[e].val = << <<>> >>
    /\ \E r \in 1..Len(mean_tfidf_df.values) :
          \E c \in 1..Len(top_words) : mean_tfidf_df.values[r][c] > 0

\* C6: the rows of the output matrices are in the fixed six-bucket order,
\* whatever the order of the input records (stated for a positive TOP_N).
C6_RowsInFixedOrder ==
    (TOP_N > 0 /\ (pc = "mean" \/ AfterMean)) =>
        \A a, b \in 1..Len(sum_tfidf_df.index) :
            \A m, n \in 1..6 :
                (a < b /\ sum_tfidf_df.index[a] = Labels[m]
                       /\ sum_tfidf_df.index[b] = Labels[n]) => m < n

\* C7: no NaN reaches a z-score matrix that is written out, also when the
\* standard deviation over the cells is 0 (stated for a positive TOP_N).
C7_NoNaNWritten ==
    TOP_N > 0 =>
        /\ "period_top20_sum_zscore.csv" \in written => ~HasNaN(z_score_sum_df)
        /\ "period_top20_mean_zscore.csv" \in written => ~HasNaN(z_score_mean_df)

\* the descending order that keeps equal values in their original order
StableDescending(values) ==
    LET pos(c) == 1 + Cardinality({d \in 1..Len(values) :
                         \/ values[d] > values[c]
                         \/ values[d] = values[c] /\ d < c})
    IN  [k \in 1..Len(values) |-> CHOOSE c \in 1..Len(values) : pos(c) = k]

\* C8: top_words is the head of the features ordered by total weight
\* descending, ties broken in favour of the feature that comes first in the
\* fitted vocabulary (stated for a positive TOP_N).
C8_StableTieBreak ==
    (TOP_N > 0 /\ AfterSelect) =>
        \E order \in TotalOrders(vectorizer, all_docs) :
            LET perm == StableDescending(order)
            IN  top_words =
                    head([k \in 1..Len(perm) |-> vectorizer.vocabulary[perm[k]]],
                         TOP_N)

\* C9: with TOP_N <= 0 nothing is processed: no row is tokenized, nothing is
\* fitted, no output is written.
C9_NonPositiveTopNRejected ==
    TOP_N <= 0 =>
        /\ i = 1
        /\ period_docs = <<>>
        /\ ~vectorizer.fitted
        /\ written = {}

\* C10: every key of period_docs holds at least one document, each key
\* comes from a record already read, and the output matrices have a row for
\* exactly the periods that have a record.
C10_EveryPeriodHasDocument ==
    /\ \A e \in 1..Len(period_docs) :
          /\ Len(period_docs[e].val) >= 1
          /\ \E k \in 1..(i - 1) : df_period[k] = period_docs[e].key
    /\ (pc = "mean" \/ AfterMean) =>
          /\ Range(sum_tfidf_df.index) = {get_period(df[k].Year) : k \in 1..Len(df)}
          /\ z_score_sum_df.index = sum_tfidf_df.index
    /\ AfterMean =>
          /\ Range(mean_tfidf_df.index) = {get_period(df[k].Year) : k \in 1..Len(df)}
          /\ z_score_mean_df.index = mean_tfidf_df.index

C10_Witness ==
    /\ pc = "done"
    /\ Len(df) = 2
    /\ sum_tfidf_df.index = <<P1>>
    /\ mean_tfidf_df.index = <<P1>>

====
